---- MODULE Spec2Model ----
(***************************************************************************)
(* Model of the two DNS update scripts of the repository:                  *)
(*   src/update_ips1.py  replaces the default-line A record set of a       *)
(*                       domain by a fetched list of preferred IPs;        *)
(*   src/update_ips2.py  points the default-line CNAME record set of a     *)
(*                       domain at a fixed target.                         *)
(* A Python str is a sequence of one-character strings, so that strip,     *)
(* split, isdigit, int and "+" are computed and not assumed.  None is a    *)
(* value that is not set: [set |-> FALSE, val |-> <<>>].                   *)
(***************************************************************************)
EXTENDS Integers, Sequences, FiniteSets, TLC

(***************************** bounds **************************************)
\* most record sets of the script's own name and type in the zone at start
MaxRecs == 2
\* most zones in the answer of list_public_zones
MaxZones == 3
\* longest response body the fetcher specification enumerates
MaxBodyLen == 4

(************************* program constants *******************************)
retry_count == 3
retry_delay == 10
TTL_A == 60
TTL_CNAME == 300
\* 'cf.090227.xyz.' abbreviated to two labels, the trailing dot kept
CNAME_TARGET == <<"c", "f", ".">>
DEFAULT_LINE == "default"

(***************************** Python str **********************************)
\* characters str.strip() removes
Whitespace == {" ", "\n", "\r", "\t"}

RECURSIVE LStrip(_)
LStrip(s) == IF s = <<>> THEN s
             ELSE IF Head(s) \in Whitespace THEN LStrip(Tail(s)) ELSE s

RECURSIVE RStrip(_)
RStrip(s) == IF s = <<>> THEN s
             ELSE IF s[Len(s)] \in Whitespace
                  THEN RStrip(SubSeq(s, 1, Len(s) - 1)) ELSE s

\* str.strip()
Strip(s) == RStrip(LStrip(s))

\* index of the first occurrence of character c in s, 0 when there is none
FirstIndex(s, c) ==
    IF \E i \in 1..Len(s) : s[i] = c
    THEN CHOOSE i \in 1..Len(s) : s[i] = c /\ \A j \in 1..(i - 1) : s[j] # c
    ELSE 0

\* str.split(sep) for a one-character separator: always at least one piece
RECURSIVE Split(_, _)
Split(s, sep) ==
    LET i == FirstIndex(s, sep)
    IN  IF i = 0 THEN <<s>>
        ELSE <<SubSeq(s, 1, i - 1)>> \o Split(SubSeq(s, i + 1, Len(s)), sep)

\* characters for which str.isdigit() is true: the ASCII digits and, among
\* others, the superscript digits ("sup2" stands for U+00B2), which int()
\* does not accept
AsciiDigits == {"0", "1", "2", "3", "4", "5", "6", "7", "8", "9"}
SuperscriptDigits == {"sup2"}

\* str.isdigit(): non-empty and every character a digit
IsDigit(s) == s # <<>> /\ \A i \in 1..Len(s) : s[i] \in AsciiDigits \cup SuperscriptDigits

\* int(s) raises ValueError
IntRaises(s) == \E i \in 1..Len(s) : s[i] \notin AsciiDigits

DigitValue(c) == CASE c = "0" -> 0 [] c = "1" -> 1 [] c = "2" -> 2 [] c = "3" -> 3
                   [] c = "4" -> 4 [] c = "5" -> 5 [] c = "6" -> 6 [] c = "7" -> 7
                   [] c = "8" -> 8 [] c = "9" -> 9

\* int(s) for a string of ASCII digits
RECURSIVE PyInt(_)
PyInt(s) == IF s = <<>> THEN 0
            ELSE 10 * PyInt(SubSeq(s, 1, Len(s) - 1)) + DigitValue(s[Len(s)])

\* os.environ.get(name): None or a string
None == [set |-> FALSE, val |-> <<>>]
Str(s) == [set |-> TRUE, val |-> s]
\* truth value of None or a string
Truthy(v) == v.set /\ v.val # <<>>

\* s + "."
Dot(s) == Append(s, ".")

(************************ candidate parsing and cap ************************)
\* lines 89-90: the response text to the list valid_ips
BeforeHash(line) == Strip(Head(Split(line, "#")))
NonBlank(line) == Strip(line) # <<>>
ParseBody(text) ==
    LET lines == Split(Strip(text), "\n")
        kept == SelectSeq(lines, NonBlank)
    IN  [i \in 1..Len(kept) |-> BeforeHash(kept[i])]

\* line 98: the cap is read
CapApplies(max_ips) == Truthy(max_ips) /\ IsDigit(max_ips.val)
\* line 99: int(MAX_IPS) raises ValueError, which nothing catches
CapRaises(max_ips) == CapApplies(max_ips) /\ IntRaises(max_ips.val)
\* lines 98-104: the list the function returns
ApplyCap(valid_ips, max_ips) ==
    IF CapApplies(max_ips) /\ ~IntRaises(max_ips.val)
       /\ 0 < PyInt(max_ips.val) /\ PyInt(max_ips.val) < Len(valid_ips)
    THEN SubSeq(valid_ips, 1, PyInt(max_ips.val))
    ELSE valid_ips

(**************************** configuration ********************************)
RequiredVars == {"HUAWEI_CLOUD_AK", "HUAWEI_CLOUD_SK", "HUAWEI_CLOUD_PROJECT_ID",
                 "HUAWEI_CLOUD_ZONE_NAME", "DOMAIN_NAME"}

\* the values the variables have when they are set
ZoneNameValue == <<"e", ".", "c">>
DomainValue == <<"w", ".", "e", ".", "c">>
ValueOf(v) == CASE v = "HUAWEI_CLOUD_ZONE_NAME" -> ZoneNameValue
                [] v = "DOMAIN_NAME" -> DomainValue
                [] OTHER -> <<"k">>

AllSet == [v \in RequiredVars |-> Str(ValueOf(v))]
\* every set of unset variables, and every single variable set to ''
Envs == { [v \in RequiredVars |-> IF v \in U THEN None ELSE Str(ValueOf(v))] :
            U \in SUBSET RequiredVars }
        \cup { [AllSet EXCEPT ![v] = Str(<<>>)] : v \in RequiredVars }

\* values of MAX_IPS: unset, '', '0', '1', '2', '9', 'x', and U+00B2
Caps == {None, Str(<<>>), Str(<<"0">>), Str(<<"1">>), Str(<<"2">>), Str(<<"9">>),
         Str(<<"x">>), Str(<<"sup2">>)}
\* the values of MAX_IPS the whole-run specification starts from
RunCaps == {None, Str(<<"2">>), Str(<<"sup2">>)}

(******************************* provider **********************************)
\* how a call of the SDK ends: it returns, it raises ClientRequestException
\* (which the scripts catch), or it raises another SdkException (a connection
\* error, a server-side error), which they do not
Outcomes == {"ok", "ClientRequestException", "SdkException"}

\* a record's line: a line name, None, or no such attribute ("absent")
Lines == {DEFAULT_LINE, "Dianxin", "None", "absent"}

ScriptType(s) == IF s = "A" THEN "A" ELSE "CNAME"

OldIp == <<"9">>
OtherTarget == <<"o", ".">>
\* the values a record set of the script's type may hold before the run
OldValues(s) == IF s = "A" THEN {<<OldIp>>} ELSE {<<CNAME_TARGET>>, <<OtherTarget>>}

\* record sets of the zone no request of the script names: the domain's record
\* set of another type, and a record set of the script's type of another name
FixedRecs(s) ==
    << [id |-> 1, name |-> Dot(DomainValue), type |-> "TXT", line |-> DEFAULT_LINE,
        records |-> <<OldIp>>, ttl |-> 300],
       [id |-> 2, name |-> Dot(<<"m", ".">> \o ZoneNameValue), type |-> ScriptType(s),
        line |-> DEFAULT_LINE,
        records |-> IF s = "A" THEN <<OldIp>> ELSE <<OtherTarget>>, ttl |-> 300] >>

\* the record sets of the domain and of the script's type, in listing order:
\* every line and every old value, ids from 3
OwnRecs(s) ==
    UNION { { [i \in 1..n |-> [id |-> i + 2, name |-> Dot(DomainValue),
                               type |-> ScriptType(s), line |-> f[i][1],
                               records |-> f[i][2], ttl |-> 300]] :
                f \in [1..n -> Lines \X OldValues(s)] } : n \in 0..MaxRecs }

\* an id the provider gives to a new record set
RECURSIVE MaxId(_)
MaxId(rs) == IF rs = <<>> THEN 0
             ELSE IF Head(rs).id > MaxId(Tail(rs)) THEN Head(rs).id ELSE MaxId(Tail(rs))

\* the zone names the provider may list: the configured name with the dot it
\* appends, a subdomain of it, another zone, and the configured name without
\* the dot
ExactName == Dot(ZoneNameValue)
SubName == <<"s", ".">> \o Dot(ZoneNameValue)
ListedNames == {ExactName, SubName, Dot(<<"o">>), ZoneNameValue}
\* an answer of list_public_zones: zone i of the answer has id i
Listing(names) == [i \in 1..Len(names) |-> [name |-> names[i], id |-> i]]
\* every answer of at most MaxZones zones
ZoneListings ==
    UNION { { Listing(f) : f \in [1..n -> ListedNames] } : n \in 0..MaxZones }
\* the answers the whole-run specification draws from: no zone, a subdomain
\* alone, the zone alone, the zone after and before a subdomain of it
RunListings == { Listing(<<>>), Listing(<<SubName>>), Listing(<<ExactName>>),
                 Listing(<<SubName, ExactName>>), Listing(<<ExactName, SubName>>) }

\* the characters of the response bodies the fetcher specification enumerates
BodyChars == {"a", "#", " ", "\n"}
\* every response body of at most MaxBodyLen characters
AllBodies == UNION { [1..n -> BodyChars] : n \in 0..MaxBodyLen }

\* the response bodies the whole-run specification draws from: three
\* addresses, addresses with comments and blank lines, a comment alone, nothing
RunBodies == { <<"a", "\n", "b", "\n", "c">>,
               <<"a", " ", "#", "x", "\n", "\n", "b", "\n">>,
               <<"#", "x">>,
               <<>> }

(******************************** state ************************************)
VARIABLES
    script,            \* "A": update_ips1.py, "CNAME": update_ips2.py
    env,               \* the five required environment values
    MAX_IPS,           \* the optional cap (update_ips1.py)
    dns_client,        \* the global: TRUE once the client is built
    zone_id,           \* the global: 0 is None
    zones,             \* response.zones of the zone listing, <<>> before it
    zone,              \* the provider's record sets of the zone, in listing order
    pc,                \* the statement of main the run is at
    attempt,           \* the loop variable of get_preferred_ips
    text,              \* response.text of the last request that succeeded
    new_ips,           \* what get_preferred_ips returned
    existing_records,  \* what get_existing_dns_records returned
    idx,               \* the position of main's delete loop in existing_records
    existing_record,   \* what get_existing_cname_record returned: <<>> is None
    calls,             \* every call made outside the process and every sleep of
                       \* this run, each with how it ended
    result,            \* how the run ended
    zone0,             \* the zone at the start of the run
    previous           \* the report of the run before this one, "none" in the first

vars == <<script, env, MAX_IPS, dns_client, zone_id, zones, zone, pc, attempt, text, new_ips,
          existing_records, idx, existing_record, calls, result, zone0, previous>>

HUAWEI_CLOUD_AK == env["HUAWEI_CLOUD_AK"]
HUAWEI_CLOUD_SK == env["HUAWEI_CLOUD_SK"]
HUAWEI_CLOUD_PROJECT_ID == env["HUAWEI_CLOUD_PROJECT_ID"]
HUAWEI_CLOUD_ZONE_NAME == env["HUAWEI_CLOUD_ZONE_NAME"]
DOMAIN_NAME == env["DOMAIN_NAME"]

\* the globals and locals of a process that has just loaded the module
Fresh ==
    /\ dns_client = FALSE
    /\ zone_id = 0
    /\ zones = <<>>
    /\ attempt = 0
    /\ text = <<>>
    /\ new_ips = <<>>
    /\ existing_records = <<>>
    /\ idx = 1
    /\ existing_record = <<>>
    /\ calls = <<>>
    /\ result = "running"

\* the module is loaded: the configuration is read, the globals are None
Init ==
    /\ script \in {"A", "CNAME"}
    /\ env \in Envs
    /\ MAX_IPS \in (IF script = "A" THEN RunCaps ELSE {None})
    /\ zone \in { FixedRecs(script) \o own : own \in OwnRecs(script) }
    /\ zone0 = zone
    /\ pc = "main"
    /\ previous = "none"
    /\ Fresh

\* the run ends with the given report
End(r) == pc' = "done" /\ result' = r

\* an exception nothing catches ends the process with a traceback
Crash == End("crashed")

\* the statement is reached, the run goes on
Goto(l) == pc' = l /\ UNCHANGED result

\* the log with one more call
Logged(op, o) == Append(calls, [op |-> op, outcome |-> o])

(************************ common to both scripts ***************************)
\* main: the test of DOMAIN_NAME
DomainMissing == ~Truthy(DOMAIN_NAME)

\* main, the DOMAIN_NAME check
Main ==
    /\ pc = "main"
    /\ IF DomainMissing THEN End("config_error") ELSE Goto("init_client")
    /\ UNCHANGED <<script, env, MAX_IPS, dns_client, zone_id, zones, zone, attempt, text, new_ips,
                   existing_records, idx, existing_record, calls, zone0, previous>>

\* all([HUAWEI_CLOUD_AK, HUAWEI_CLOUD_SK, HUAWEI_CLOUD_PROJECT_ID])
CredentialsOnlyKeys == Truthy(HUAWEI_CLOUD_AK) /\ Truthy(HUAWEI_CLOUD_SK)
CredentialsPresent ==
    Truthy(HUAWEI_CLOUD_AK) /\ Truthy(HUAWEI_CLOUD_SK) /\ Truthy(HUAWEI_CLOUD_PROJECT_ID)

\* init_huawei_dns_client: building the client makes no request; if the
\* builder raises, the function returns False
init_huawei_dns_client ==
    /\ pc = "init_client"
    /\ IF ~CredentialsPresent
       THEN End("init_failed") /\ UNCHANGED dns_client
       ELSE \E built \in BOOLEAN :
              IF built
              THEN dns_client' = TRUE /\ Goto("get_zone_id")
              ELSE End("init_failed") /\ UNCHANGED dns_client
    /\ UNCHANGED <<script, env, MAX_IPS, zone_id, zones, zone, attempt, text, new_ips,
                   existing_records, idx, existing_record, calls, zone0, previous>>

\* the zones of a listing whose name is the configured name and a dot
MatchingSuffix(zs) ==
    SelectSeq(zs, LAMBDA z :
        /\ Len(z.name) >= Len(Dot(HUAWEI_CLOUD_ZONE_NAME.val))
        /\ SubSeq(z.name, Len(z.name) - Len(HUAWEI_CLOUD_ZONE_NAME.val), Len(z.name))
             = Dot(HUAWEI_CLOUD_ZONE_NAME.val))
Matching(zs) == SelectSeq(zs, LAMBDA z : z.name = Dot(HUAWEI_CLOUD_ZONE_NAME.val))

\* the statement main goes to once the zone is resolved
AfterZone == IF script = "A" THEN "get_preferred_ips" ELSE "get_existing_cname"

\* get_zone_id returns False, and main returns
ZoneFailedContinue == Goto(AfterZone)
ZoneFailed == End("zone_failed")

\* get_zone_id, the answer of list_public_zones drawn from listings
get_zone_id(listings) ==
    /\ pc = "get_zone_id"
    /\ IF ~Truthy(HUAWEI_CLOUD_ZONE_NAME)
       THEN ZoneFailed /\ UNCHANGED <<zone_id, zones, calls>>
       ELSE \E o \in Outcomes :
              /\ calls' = Logged("list_public_zones", o)
              /\ CASE o = "ok" ->
                        \E zs \in listings :
                          /\ zones' = zs
                          /\ IF Matching(zs) # <<>>
                             THEN /\ zone_id' = Head(Matching(zs)).id
                                  /\ Goto(AfterZone)
                             ELSE ZoneFailed /\ UNCHANGED zone_id
                   [] o = "ClientRequestException" ->
                        ZoneFailed /\ UNCHANGED <<zone_id, zones>>
                   [] OTHER -> Crash /\ UNCHANGED <<zone_id, zones>>
    /\ UNCHANGED <<script, env, MAX_IPS, dns_client, zone, attempt, text, new_ips,
                   existing_records, idx, existing_record, zone0, previous>>

(*************************** update_ips1.py ********************************)
\* line 107: the except clause sleeps and the loop goes on
MayRetryAlways(att) == att < retry_count
MayRetry(att) == att < retry_count - 1

\* get_preferred_ips returns [] at once when the response holds no address
RetryOnEmpty == UNCHANGED <<new_ips, pc, result>>
ReturnEmpty == new_ips' = <<>> /\ Goto("got_ips")

\* one pass of the loop of get_preferred_ips, the response text drawn from
\* bodies: the request, then the parse, the cap and the return, or the except
\* clause with its sleep; and the return that follows the loop
get_preferred_ips(bodies) ==
    /\ pc = "get_preferred_ips"
    /\ IF attempt >= retry_count
       THEN new_ips' = <<>> /\ Goto("got_ips") /\ UNCHANGED <<attempt, text, calls>>
       ELSE \E ok \in BOOLEAN :
         IF ok
         THEN \E body \in bodies :
                LET valid_ips == ParseBody(body)
                IN  /\ calls' = Logged("requests.get", "ok")
                    /\ text' = body
                    /\ UNCHANGED attempt
                    /\ IF valid_ips = <<>>
                       THEN ReturnEmpty
                       ELSE IF CapRaises(MAX_IPS)
                       THEN Crash /\ UNCHANGED new_ips
                       ELSE new_ips' = ApplyCap(valid_ips, MAX_IPS) /\ Goto("got_ips")
         ELSE IF MayRetry(attempt)
              THEN /\ calls' = calls \o <<[op |-> "requests.get",
                                           outcome |-> "RequestException"],
                                          [op |-> "sleep", outcome |-> "ok",
                                           secs |-> retry_delay]>>
                   /\ attempt' = attempt + 1
                   /\ UNCHANGED <<text, new_ips, pc, result>>
              ELSE /\ calls' = Logged("requests.get", "RequestException")
                   /\ new_ips' = <<>>
                   /\ Goto("got_ips")
                   /\ UNCHANGED <<attempt, text>>
    /\ UNCHANGED <<script, env, MAX_IPS, dns_client, zone_id, zones, zone,
                   existing_records, idx, existing_record, zone0, previous>>

\* main returns when get_preferred_ips returned no address
NoIpsContinue == Goto("get_existing")
NoIps == End("no_ips")

\* main, the check of what get_preferred_ips returned
CheckNewIps ==
    /\ pc = "got_ips"
    /\ IF new_ips = <<>> THEN NoIps ELSE Goto("get_existing")
    /\ UNCHANGED <<script, env, MAX_IPS, dns_client, zone_id, zones, zone, attempt, text, new_ips,
                   existing_records, idx, existing_record, calls, zone0, previous>>

\* what list_record_sets_by_zone answers for a name and a type
ListRecordSets(name, type) ==
    SelectSeq(zone, LAMBDA r : r.name = name /\ r.type = type)

\* the client-side filter of get_existing_dns_records
IsDefaultLine(record) == record.line = DEFAULT_LINE
DefaultRecordsFirstOnly(recordsets) ==
    IF SelectSeq(recordsets, IsDefaultLine) = <<>> THEN <<>>
    ELSE <<Head(SelectSeq(recordsets, IsDefaultLine))>>
DefaultRecords(recordsets) == SelectSeq(recordsets, IsDefaultLine)

\* reading record.line of a record that has no such attribute raises
\* AttributeError
LineRaises(recordsets) == \E i \in 1..Len(recordsets) : recordsets[i].line = "absent"

\* get_existing_dns_records, and main's test of what it returned
get_existing_dns_records ==
    /\ pc = "get_existing"
    /\ \E o \in Outcomes :
         /\ calls' = Append(calls, [op |-> "list_record_sets_by_zone", outcome |-> o,
                                    zone_id |-> zone_id, name |-> Dot(DOMAIN_NAME.val),
                                    type |-> "A"])
         /\ CASE o = "ok" ->
                LET recordsets == ListRecordSets(Dot(DOMAIN_NAME.val), "A")
                IN  IF LineRaises(recordsets)
                    THEN Crash /\ UNCHANGED existing_records
                    ELSE /\ existing_records' = DefaultRecords(recordsets)
                         /\ Goto(IF DefaultRecords(recordsets) # <<>>
                                 THEN "delete" ELSE "create")
              [] o = "ClientRequestException" ->
                   existing_records' = <<>> /\ Goto("create")
              [] OTHER -> Crash /\ UNCHANGED existing_records
    /\ idx' = 1
    /\ UNCHANGED <<script, env, MAX_IPS, dns_client, zone_id, zones, zone, attempt, text, new_ips,
                   existing_record, zone0, previous>>

\* the zone once the provider has deleted the record set of the given id
DeleteNothing(rs, record_id) == rs
DeleteRecordSet(rs, record_id) == SelectSeq(rs, LAMBDA r : r.id # record_id)

\* main after the delete of the record set at position i of n: the next pass
\* of the loop, or the create stage after the last
AfterDeleteStay(i, n) == "delete"
AfterDeleteListAgain(i, n) == "get_existing"
AfterDelete(i, n) == IF i = n THEN "create" ELSE "delete"

\* one pass of main's delete loop: delete_dns_record(record.id), whose return
\* value main does not read
delete_dns_record ==
    /\ pc = "delete"
    /\ idx <= Len(existing_records)
    /\ \E o \in Outcomes :
         /\ calls' = Append(calls, [op |-> "delete_record_set", outcome |-> o,
                                    zone_id |-> zone_id,
                                    recordset_id |-> existing_records[idx].id])
         /\ CASE o = "ok" ->
                   /\ zone' = DeleteRecordSet(zone, existing_records[idx].id)
                   /\ idx' = idx + 1
                   /\ Goto(AfterDelete(idx, Len(existing_records)))
              [] o = "ClientRequestException" ->
                   /\ idx' = idx + 1
                   /\ Goto(AfterDelete(idx, Len(existing_records)))
                   /\ UNCHANGED zone
              [] OTHER -> Crash /\ UNCHANGED <<zone, idx>>
    /\ UNCHANGED <<script, env, MAX_IPS, dns_client, zone_id, zones, attempt, text, new_ips,
                   existing_records, existing_record, zone0, previous>>

\* the body of the create request of update_ips1.py
RecordSetBodyFirstIp(ip_list) ==
    [name |-> Dot(DOMAIN_NAME.val), type |-> "A", records |-> <<Head(ip_list)>>,
     ttl |-> TTL_A, line |-> DEFAULT_LINE]
RecordSetBodyA(ip_list) ==
    [name |-> Dot(DOMAIN_NAME.val), type |-> "A", records |-> ip_list, ttl |-> TTL_A,
     line |-> DEFAULT_LINE]

\* the zone once the provider has created a record set from a request body
CreateRecordSet(rs, body) ==
    Append(rs, [id |-> MaxId(rs) + 1, name |-> body.name, type |-> body.type,
                line |-> body.line, records |-> body.records, ttl |-> body.ttl])

\* create_dns_record_set(new_ips), and main's report
create_dns_record_set ==
    /\ pc = "create"
    /\ IF new_ips = <<>>
       THEN End("update_failed") /\ UNCHANGED <<zone, calls>>
       ELSE \E o \in Outcomes :
              /\ calls' = Append(calls, [op |-> "create_record_set", outcome |-> o,
                                         zone_id |-> zone_id,
                                         body |-> RecordSetBodyA(new_ips)])
              /\ CASE o = "ok" ->
                        /\ zone' = CreateRecordSet(zone, RecordSetBodyA(new_ips))
                        /\ End("updated")
                   [] o = "ClientRequestException" ->
                        End("update_failed") /\ UNCHANGED zone
                   [] OTHER -> Crash /\ UNCHANGED zone
    /\ UNCHANGED <<script, env, MAX_IPS, dns_client, zone_id, zones, attempt, text, new_ips,
                   existing_records, idx, existing_record, zone0, previous>>

(*************************** update_ips2.py ********************************)
\* the test of get_existing_cname_record: no line attribute, or the default line
IsDefaultOrNoLine(record) == record.line = "absent" \/ record.line = DEFAULT_LINE

\* the first record set that passes the test, <<>> (None) when there is none
FirstDefault(recordsets) ==
    IF SelectSeq(recordsets, IsDefaultOrNoLine) = <<>> THEN <<>>
    ELSE <<Head(SelectSeq(recordsets, IsDefaultOrNoLine))>>

\* main's test of the record found: its first value is the target
IsUpToDateAny(record) == record.records # <<>>
IsUpToDateNever(record) == FALSE
IsUpToDate(record) == record.records # <<>> /\ record.records[1] = CNAME_TARGET

\* get_existing_cname_record, and main's test of what it returned
get_existing_cname_record ==
    /\ pc = "get_existing_cname"
    /\ \E o \in Outcomes :
         /\ calls' = Append(calls, [op |-> "list_record_sets_by_zone", outcome |-> o,
                                    zone_id |-> zone_id, name |-> Dot(DOMAIN_NAME.val),
                                    type |-> "CNAME"])
         /\ CASE o = "ok" ->
                LET found == FirstDefault(ListRecordSets(Dot(DOMAIN_NAME.val), "CNAME"))
                IN  /\ existing_record' = found
                    /\ IF found = <<>>
                       THEN Goto("create_cname")
                       ELSE IF IsUpToDate(found[1])
                       THEN End("up_to_date")
                       ELSE Goto("delete_cname")
              [] o = "ClientRequestException" ->
                   existing_record' = <<>> /\ Goto("create_cname")
              [] OTHER -> Crash /\ UNCHANGED existing_record
    /\ UNCHANGED <<script, env, MAX_IPS, dns_client, zone_id, zones, zone, attempt, text, new_ips,
                   existing_records, idx, zone0, previous>>

\* delete_dns_record(existing_record.id, ...) of update_ips2.py, whose return
\* value main does not read
delete_cname_record ==
    /\ pc = "delete_cname"
    /\ \E o \in Outcomes :
         /\ calls' = Append(calls, [op |-> "delete_record_set", outcome |-> o,
                                    zone_id |-> zone_id,
                                    recordset_id |-> existing_record[1].id])
         /\ CASE o = "ok" ->
                   /\ zone' = DeleteRecordSet(zone, existing_record[1].id)
                   /\ Goto("create_cname")
              [] o = "ClientRequestException" -> Goto("create_cname") /\ UNCHANGED zone
              [] OTHER -> Crash /\ UNCHANGED zone
    /\ UNCHANGED <<script, env, MAX_IPS, dns_client, zone_id, zones, attempt, text, new_ips,
                   existing_records, idx, existing_record, zone0, previous>>

\* the body of the create request of update_ips2.py
RecordSetBodyCname ==
    [name |-> Dot(DOMAIN_NAME.val), type |-> "CNAME", records |-> <<CNAME_TARGET>>,
     ttl |-> TTL_CNAME, line |-> DEFAULT_LINE]

\* create_cname_record(), and main's report
create_cname_record ==
    /\ pc = "create_cname"
    /\ \E o \in Outcomes :
         /\ calls' = Append(calls, [op |-> "create_record_set", outcome |-> o,
                                    zone_id |-> zone_id, body |-> RecordSetBodyCname])
         /\ CASE o = "ok" ->
                   /\ zone' = CreateRecordSet(zone, RecordSetBodyCname)
                   /\ End("updated")
              [] o = "ClientRequestException" -> End("update_failed") /\ UNCHANGED zone
              [] OTHER -> Crash /\ UNCHANGED zone
    /\ UNCHANGED <<script, env, MAX_IPS, dns_client, zone_id, zones, attempt, text, new_ips,
                   existing_records, idx, existing_record, zone0, previous>>

(******************************* scheduler *********************************)
\* the run reported success
Succeeded == pc = "done" /\ result \in {"up_to_date", "updated"}

\* the scheduler starts the script once more on the zone a successful run
\* left: a new process, the same configuration
Rerun ==
    /\ Succeeded
    /\ previous = "none"
    /\ previous' = result
    /\ pc' = "main"
    /\ zone0' = zone
    /\ dns_client' = FALSE
    /\ zone_id' = 0
    /\ zones' = <<>>
    /\ attempt' = 0
    /\ text' = <<>>
    /\ new_ips' = <<>>
    /\ existing_records' = <<>>
    /\ idx' = 1
    /\ existing_record' = <<>>
    /\ calls' = <<>>
    /\ result' = "running"
    /\ UNCHANGED <<script, env, MAX_IPS, zone>>

(**************************** specifications *******************************)
\* get_zone_id and get_preferred_ips within a run
ResolveRun == get_zone_id(RunListings)
FetchRun == get_preferred_ips(RunBodies)

Next ==
    \/ Main
    \/ init_huawei_dns_client
    \/ ResolveRun
    \/ FetchRun
    \/ CheckNewIps
    \/ get_existing_dns_records
    \/ delete_dns_record
    \/ create_dns_record_set
    \/ get_existing_cname_record
    \/ delete_cname_record
    \/ create_cname_record
    \/ Rerun

\* runs of either script
Spec == Init /\ [][Next]_vars

\* get_preferred_ips is called: every cap, every response body
InitFetcher ==
    /\ script = "A"
    /\ env = AllSet
    /\ MAX_IPS \in Caps
    /\ zone = FixedRecs("A")
    /\ zone0 = zone
    /\ pc = "get_preferred_ips"
    /\ previous = "none"
    /\ Fresh

NextFetcher == get_preferred_ips(AllBodies)

\* get_preferred_ips alone
SpecFetcher == InitFetcher /\ [][NextFetcher]_vars


\* get_zone_id is called: either script, the zone name set, unset or empty
InitResolver ==
    /\ script \in {"A", "CNAME"}
    /\ env \in {AllSet, [AllSet EXCEPT !["HUAWEI_CLOUD_ZONE_NAME"] = None],
                [AllSet EXCEPT !["HUAWEI_CLOUD_ZONE_NAME"] = Str(<<>>)]}
    /\ MAX_IPS = None
    /\ zone = FixedRecs(script)
    /\ zone0 = zone
    /\ pc = "get_zone_id"
    /\ previous = "none"
    /\ dns_client = TRUE
    /\ zone_id = 0
    /\ zones = <<>>
    /\ attempt = 0
    /\ text = <<>>
    /\ new_ips = <<>>
    /\ existing_records = <<>>
    /\ idx = 1
    /\ existing_record = <<>>
    /\ calls = <<>>
    /\ result = "running"

NextResolver == get_zone_id(ZoneListings)

\* get_zone_id alone, every answer of list_public_zones
SpecResolver == InitResolver /\ [][NextResolver]_vars


\* a step of the run in progress: every call returns or raises
Step ==
    \/ Main
    \/ init_huawei_dns_client
    \/ ResolveRun
    \/ FetchRun
    \/ CheckNewIps
    \/ get_existing_dns_records
    \/ delete_dns_record
    \/ create_dns_record_set
    \/ get_existing_cname_record
    \/ delete_cname_record
    \/ create_cname_record

\* runs of either script in which no call blocks for ever
SpecLive == Init /\ [][Next]_vars /\ WF_vars(Step)

(******************************* claims ************************************)
\* the calls of this run of the given operations, in order
CallsOf(ops) == SelectSeq(calls, LAMBDA c : c.op \in ops)
Count(op) == Len(CallsOf({op}))
\* every call of the given operations returned without raising
AllOk(ops) == \A i \in 1..Len(calls) : calls[i].op \in ops => calls[i].outcome = "ok"

RecordOps == {"list_record_sets_by_zone", "delete_record_set", "create_record_set"}
MutationOps == {"delete_record_set", "create_record_set"}

\* the record sets of DOMAIN_NAME of a type on the line 'default'
OnDefaultLine(rs, type) ==
    SelectSeq(rs, LAMBDA r : r.name = Dot(DomainValue) /\ r.type = type
                             /\ r.line = "default")
\* the record sets of DOMAIN_NAME of a type on the line 'default' or with no
\* line attribute
OnDefaultOrNoLine(rs, type) ==
    SelectSeq(rs, LAMBDA r : r.name = Dot(DomainValue) /\ r.type = type
                             /\ r.line \in {"default", "absent"})

ReturnedEmpty ==
    /\ script = "A"
    /\ Count("requests.get") > 0
    /\ pc # "get_preferred_ips"
    /\ result # "crashed"
    /\ new_ips = <<>>

\* C3: whenever get_preferred_ips returns the empty list, the run ends ("no
\* IPs") with no record-list, delete or create call issued and the zone's
\* record sets as they were at the start.
C3_NoIpsNoDns ==
    ReturnedEmpty
    => /\ pc \in {"got_ips", "done"}
       /\ pc = "done" => result = "no_ips"
       /\ CallsOf(RecordOps) = <<>>
       /\ zone = zone0

\* three failed attempts ended the run, the zone holding default-line A records
C3_Witness ==
    /\ ReturnedEmpty /\ pc = "done" /\ result = "no_ips"
    /\ Count("requests.get") = 3
    /\ OnDefaultLine(zone0, "A") # <<>>

\* the zone listing was asked for and no zone id came of it
ResolutionFailed == Count("list_public_zones") > 0 /\ zone_id = 0

\* C4: in both scripts, when the zone listing has no zone of the configured name
\* plus a dot, or the listing call raises, the run ends with the listing its
\* only call (no fetch, record-list, delete or create) and the zone unchanged.
C4_ResolutionAborts ==
    ResolutionFailed
    => /\ pc = "done"
       /\ result \in {"zone_failed", "crashed"}
       /\ Len(calls) = 1
       /\ zone = zone0

\* a listing that held only a subdomain of the configured zone ended the run
C4_Witness ==
    /\ ResolutionFailed /\ result = "zone_failed"
    /\ calls[1].outcome = "ok"
    /\ OnDefaultLine(zone0, ScriptType(script)) # <<>>

\* a required environment value is missing or empty
EnvMissing == \E v \in RequiredVars : ~Truthy(env[v])

\* C5: in both scripts, when a required environment value is missing or empty
\* the run aborts with a configuration failure before any network call: the
\* log of calls stays empty.
C5_ConfigAborts ==
    EnvMissing
    => /\ calls = <<>>
       /\ pc \in {"main", "init_client", "get_zone_id", "done"}
       /\ pc = "done" => result \in {"config_error", "init_failed", "zone_failed"}
       /\ zone_id = 0
       /\ zone = zone0

\* the project id alone is missing and the run has ended
C5_Witness ==
    /\ ~Truthy(HUAWEI_CLOUD_PROJECT_ID)
    /\ \A v \in RequiredVars \ {"HUAWEI_CLOUD_PROJECT_ID"} : Truthy(env[v])
    /\ pc = "done" /\ result = "init_failed"

\* the first record set of DOMAIN_NAME the CNAME script would select holds
\* the target
FirstHoldsTarget(rs) ==
    /\ OnDefaultOrNoLine(rs, "CNAME") # <<>>
    /\ OnDefaultOrNoLine(rs, "CNAME")[1].records = <<CNAME_TARGET>>

\* the selected record set holds the target as its single value: the run has
\* ended "already up to date", with no delete and no create call
C6_NoOp ==
    (script = "CNAME" /\ existing_record # <<>>
       /\ existing_record[1].records = <<CNAME_TARGET>>)
    => /\ pc = "done" /\ result = "up_to_date"
       /\ CallsOf(MutationOps) = <<>>
       /\ zone = zone0

Failed == [op |-> "requests.get", outcome |-> "RequestException"]
Got == [op |-> "requests.get", outcome |-> "ok"]
Slept == [op |-> "sleep", outcome |-> "ok", secs |-> retry_delay]
FetchLog == CallsOf({"requests.get", "sleep"})
LastCall == calls[Len(calls)]
\* the exception left get_preferred_ips: the process ended in it
RaisedInFetch == result = "crashed" /\ calls # <<>> /\ LastCall.op = "requests.get"
\* every request of this run failed
AllFailed == \A i \in 1..Len(calls) : calls[i].op = "requests.get" => calls[i] = Failed

\* C7 as stated: when the source fails on attempts 1 and 2 and succeeds on
\* attempt 3, get_preferred_ips returns the parsed and capped list of the third
\* response, after exactly 3 requests and 2 sleeps, each sleep between two
\* requests.
C7_Claim ==
    (script = "A" /\ CallsOf({"requests.get"}) = <<Failed, Failed, Got>>)
    => /\ ~RaisedInFetch
       /\ pc # "get_preferred_ips"
       /\ new_ips = ApplyCap(ParseBody(text), MAX_IPS)
       /\ FetchLog = <<Failed, Slept, Failed, Slept, Got>>

\* what remains of C7 where int(MAX_IPS) does not raise
C7_UnlessCapRaises ==
    (script = "A" /\ CallsOf({"requests.get"}) = <<Failed, Failed, Got>>
       /\ ~(ParseBody(text) # <<>> /\ CapRaises(MAX_IPS)))
    => /\ ~RaisedInFetch
       /\ pc # "get_preferred_ips"
       /\ new_ips = ApplyCap(ParseBody(text), MAX_IPS)
       /\ FetchLog = <<Failed, Slept, Failed, Slept, Got>>

\* C8: when every request fails, get_preferred_ips returns the empty list
\* after exactly 3 requests and 2 sleeps, no sleep after the last request; and
\* no run makes a fourth request.
C8_Exhaustion ==
    script = "A"
    => /\ Count("requests.get") <= 3
       /\ (AllFailed /\ Count("requests.get") = 3) => pc # "get_preferred_ips"
       /\ (AllFailed /\ pc = "got_ips")
            => /\ new_ips = <<>>
               /\ FetchLog = <<Failed, Slept, Failed, Slept, Failed>>

\* the function has returned after three failed requests
C8_Witness ==
    /\ script = "A" /\ pc = "got_ips" /\ AllFailed
    /\ Count("requests.get") = 3 /\ Count("sleep") = 2

\* what the specification says the parse of a response body is: every line cut
\* at its first '#' and trimmed, the lines that are then empty dropped
CutLine(line) == Strip(Head(Split(line, "#")))
NotEmpty(line) == line # <<>>
ClaimedParse(body) ==
    LET lines == Split(body, "\n")
    IN  SelectSeq([i \in 1..Len(lines) |-> CutLine(lines[i])], NotEmpty)

\* C9 as stated: the list get_preferred_ips returns is the (capped) sequence of
\* the lines of the body, each cut at its first '#' and trimmed, blank lines
\* and lines empty after the cut dropped; it never holds an empty string.
C9_Claim ==
    (pc = "got_ips" /\ calls # <<>> /\ LastCall = Got)
    => /\ new_ips = ApplyCap(ClaimedParse(text), MAX_IPS)
       /\ \A i \in 1..Len(new_ips) : new_ips[i] # <<>>

\* MAX_IPS is a decimal integer
IsDecimal(m) == m.set /\ m.val # <<>> /\ \A i \in 1..Len(m.val) : m.val[i] \in AsciiDigits
\* what the specification says the cap does
ClaimedCap(parsed, m) ==
    IF IsDecimal(m) /\ 0 < PyInt(m.val) /\ PyInt(m.val) < Len(parsed)
    THEN SubSeq(parsed, 1, PyInt(m.val))
    ELSE parsed

\* C10 as stated: for a parsed list of length L, get_preferred_ips returns its
\* first c entries when MAX_IPS is a decimal integer c with 0 < c < L, and the
\* whole list when c >= L, c = 0, MAX_IPS is unset or MAX_IPS is not a number.
C10_Claim ==
    (calls # <<>> /\ LastCall = Got /\ ParseBody(text) # <<>>)
    => /\ pc = "got_ips"
       /\ new_ips = ClaimedCap(ParseBody(text), MAX_IPS)

\* what remains of C10 where int(MAX_IPS) does not raise
C10_UnlessCapRaises ==
    (calls # <<>> /\ LastCall = Got /\ ParseBody(text) # <<>> /\ ~CapRaises(MAX_IPS))
    => /\ pc = "got_ips"
       /\ new_ips = ClaimedCap(ParseBody(text), MAX_IPS)

\* the listing was answered and the run went on to the next stage
Resolved == pc = AfterZone
\* the positions of the listing whose zone is named as configured, dot added
ExactAt == { i \in 1..Len(zones) : zones[i].name = ZoneNameValue \o <<".">> }

\* C11: whatever the zone listing, resolution succeeds exactly when some listed
\* zone is named as configured plus '.', zone_id is then the id of the first
\* such zone in listing order, and a zone that merely ends with the configured
\* name is never the one selected.
C11_FirstExactMatch ==
    (calls # <<>> /\ calls[Len(calls)].op = "list_public_zones"
       /\ calls[Len(calls)].outcome = "ok")
    => /\ Resolved <=> ExactAt # {}
       /\ ~Resolved => (pc = "done" /\ result = "zone_failed" /\ zone_id = 0)
       /\ Resolved =>
            \E i \in ExactAt :
               /\ zone_id = zones[i].id
               /\ \A j \in ExactAt : i <= j

\* a subdomain was listed before the zone and the zone's id was taken
C11_Witness ==
    /\ Resolved
    /\ Len(zones) >= 2
    /\ zones[1].name = <<"s", ".">> \o ZoneNameValue \o <<".">>
    /\ zones[2].name = ZoneNameValue \o <<".">>
    /\ zone_id = zones[2].id

\* the run of update_ips1.py went through its create stage
CreateStageDone == script = "A" /\ pc = "done" /\ result \in {"updated", "update_failed"}
\* the create calls of this run
Creates == CallsOf({"create_record_set"})

\* C12: a run of the A-record script that reaches the create stage issues
\* exactly one create call, carrying the whole candidate list in order with
\* type A, TTL 60 and line default; no run issues a second create call, and
\* none issues one create call per address.
C12_SingleCreate ==
    script = "A" =>
      /\ Len(Creates) <= 1
      /\ CreateStageDone =>
           /\ Len(Creates) = 1
           /\ Creates[1].body.records = new_ips
           /\ Creates[1].body.type = "A"
           /\ Creates[1].body.ttl = 60
           /\ Creates[1].body.line = "default"
           /\ Creates[1].body.name = DOMAIN_NAME.val \o <<".">>
           /\ Creates[1].zone_id = zone_id

\* a list of two addresses went out in one create call
C12_Witness ==
    /\ CreateStageDone
    /\ result = "updated"
    /\ Len(new_ips) >= 2
    /\ Len(Creates) = 1
    /\ Creates[1].body.records = new_ips

\* the delete calls of this run
Deletes == CallsOf({"delete_record_set"})
\* the delete calls went, one each and in order, to the record sets that
\* get_existing_dns_records returned
EachDeletedOnce ==
    /\ Len(Deletes) = Len(existing_records)
    /\ \A i \in 1..Len(Deletes) : Deletes[i].recordset_id = existing_records[i].id
\* a delete call of this run failed
SomeDeleteFailed == \E i \in 1..Len(Deletes) : Deletes[i].outcome # "ok"
\* a delete call of this run raised what delete_dns_record does not catch
SomeDeleteUncaught == \E i \in 1..Len(Deletes) : Deletes[i].outcome = "SdkException"

\* C13: in the A-record script, whichever delete calls fail, a delete is
\* attempted exactly once for every record set get_existing_dns_records
\* returned and the create call is attempted after them; a failed delete
\* never ends the run.
C13_Claim ==
    (script = "A" /\ pc = "done" /\ SomeDeleteFailed)
    => /\ EachDeletedOnce
       /\ Len(Creates) = 1
       /\ LastCall.op = "create_record_set"

\* what holds of C13 when no delete raises an exception other than
\* ClientRequestException
C13_UnlessUncaught ==
    (script = "A" /\ pc = "done" /\ Len(Deletes) > 0 /\ ~SomeDeleteUncaught)
    => /\ EachDeletedOnce
       /\ Len(Creates) = 1
       /\ LastCall.op = "create_record_set"

\* the first of two deletes failed with ClientRequestException and the run
\* went on to the second delete and the create
C13_CaughtWitness ==
    /\ script = "A" /\ pc = "done"
    /\ Len(Deletes) = 2
    /\ Deletes[1].outcome = "ClientRequestException"
    /\ Len(Creates) = 1

\* the positions in the log of the calls of the given operations
Pos(ops) == { i \in 1..Len(calls) : calls[i].op \in ops }
\* a call of the operation had returned before position m of the log
OkBefore(op, m) == \E i \in 1..(m - 1) : calls[i].op = op /\ calls[i].outcome = "ok"

\* C14: in a run of the A-record script the record-list call comes before
\* every delete call and every delete before the create; no delete and no
\* record-list call comes after the create; and no delete or create is
\* issued before the zone is resolved and the candidates are fetched.
C14_Ordering ==
    script = "A" =>
      /\ \A d \in Pos({"delete_record_set"}) :
            \E l \in Pos({"list_record_sets_by_zone"}) : l < d
      /\ \A l \in Pos({"list_record_sets_by_zone"}) : \A m \in Pos(MutationOps) : l < m
      /\ \A d \in Pos({"delete_record_set"}) : \A c \in Pos({"create_record_set"}) : d < c
      /\ \A m \in Pos(MutationOps) :
            /\ OkBefore("list_public_zones", m)
            /\ OkBefore("requests.get", m)
            /\ zone_id # 0
            /\ new_ips # <<>>

\* a run that listed, deleted twice and created
C14_Witness ==
    /\ script = "A" /\ pc = "done"
    /\ Len(Deletes) = 2
    /\ Len(Creates) = 1
    /\ Count("list_record_sets_by_zone") = 1

\* the last request of get_preferred_ips returned a body that holds no address
GotEmpty == FetchLog # <<>> /\ FetchLog[Len(FetchLog)] = Got /\ ParseBody(text) = <<>>

\* C15: when a request of get_preferred_ips returns a body that parses to the
\* empty list, the function returns the empty list on that attempt: no request
\* and no sleep follows it.
C15_EmptyReturnsAtOnce ==
    /\ GotEmpty => /\ pc = "got_ips"
                   /\ new_ips = <<>>
                   /\ result = "running"
    /\ \A i \in 1..Len(FetchLog) : FetchLog[i] = Got => i = Len(FetchLog)

\* the second request returned a body of blanks and comments only
C15_Witness ==
    /\ FetchLog = <<Failed, Slept, Got>>
    /\ text # <<>>
    /\ ParseBody(text) = <<>>
    /\ pc = "got_ips"

\* the record listing of update_ips1.py has just been answered
JustListedA ==
    /\ script = "A" /\ calls # <<>>
    /\ LastCall.op = "list_record_sets_by_zone" /\ LastCall.outcome = "ok"
\* the A record sets of the domain in the zone, and those of them on the
\* default line or without a line value
ListedA == SelectSeq(zone, LAMBDA r : r.name = DOMAIN_NAME.val \o <<".">> /\ r.type = "A")
DefaultOrNoLineA == SelectSeq(ListedA, LAMBDA r : r.line \in {"default", "None", "absent"})

\* C16: get_existing_dns_records of the A-record script selects exactly the
\* listed record sets whose line is 'default' or that carry no line value, so
\* an A record set with no line value is among those deleted before the create.
C16_Claim ==
    JustListedA => /\ pc \in {"delete", "create"}
                   /\ existing_records = DefaultOrNoLineA

\* what the filter of update_ips1.py selects when reading record.line does not
\* raise: the record sets whose line is exactly 'default'
C16_ExactDefaultOnly ==
    (JustListedA /\ pc # "done")
    => existing_records = SelectSeq(ListedA, LAMBDA r : r.line = "default")

\* a record set whose line is None was listed and left out
C16_LeftOutWitness ==
    /\ JustListedA /\ pc = "create"
    /\ existing_records = <<>>
    /\ \E i \in 1..Len(ListedA) : ListedA[i].line = "None"

\* every delete call of this run returned, and its one create call failed
DeletesOkCreateFailed ==
    /\ script = "A" /\ pc = "done"
    /\ \A i \in 1..Len(Deletes) : Deletes[i].outcome = "ok"
    /\ Len(Creates) >= 1
    /\ Creates[Len(Creates)].outcome # "ok"
\* the record listing of this run returned
ListedOk ==
    \E i \in 1..Len(calls) :
        calls[i].op = "list_record_sets_by_zone" /\ calls[i].outcome = "ok"
\* the record sets of the zone for (DOMAIN_NAME, A, default)
DefaultA(rs) ==
    SelectSeq(rs, LAMBDA r : r.name = DOMAIN_NAME.val \o <<".">> /\ r.type = "A"
                             /\ r.line = "default")
\* the run ends without success, the zone holds no record set for
\* (DOMAIN_NAME, A, default), nothing was created and no second create was
\* attempted
EndsFailedAndEmpty ==
    /\ result \in {"update_failed", "crashed"}
    /\ DefaultA(zone) = <<>>
    /\ \A i \in 1..Len(zone) : \E j \in 1..Len(zone0) : zone[i] = zone0[j]
    /\ Len(Creates) = 1

CandidatesCname ==
    SelectSeq(zone0, LAMBDA r : r.name = DOMAIN_NAME.val \o <<".">> /\ r.type = "CNAME"
                                /\ r.line \in {"default", "absent"})
\* the run of update_ips2.py is over, it had found a record set and its value
\* was not the target
FoundStale ==
    /\ script = "CNAME" /\ pc = "done"
    /\ existing_record # <<>>
    /\ existing_record[1].records # <<<<"c", "f", ".">>>>
\* one delete of the first candidate, then one create of the target
OneDeleteThenCreate ==
    /\ Len(Deletes) = 1
    /\ existing_record[1] = CandidatesCname[1]
    /\ Deletes[1].recordset_id = CandidatesCname[1].id
    /\ Len(Creates) = 1
    /\ \A d \in Pos({"delete_record_set"}) : \A c \in Pos({"create_record_set"}) : d < c
    /\ Creates[1].body.records = <<<<"c", "f", ".">>>>
    /\ Creates[1].body.type = "CNAME"
    /\ Creates[1].body.ttl = 300
    /\ Creates[1].body.line = "default"

\* C18: in the CNAME script, when a default-line CNAME record set is found and
\* its value is not CNAME_TARGET, the run issues exactly one delete call, for
\* the first matching record set in listing order, then exactly one create
\* call with value [CNAME_TARGET], TTL 300 and line default; and no run issues
\* more than one delete call, however many CNAME record sets exist.
C18_Claim ==
    /\ script = "CNAME" => Len(Deletes) <= 1
    /\ FoundStale => OneDeleteThenCreate

\* what holds of C18 when the delete raises no exception other than
\* ClientRequestException
C18_UnlessUncaught ==
    /\ script = "CNAME" => Len(Deletes) <= 1
    /\ (FoundStale /\ ~SomeDeleteUncaught) => OneDeleteThenCreate

\* two stale CNAME record sets existed; one delete and one create were issued
C18_CaughtWitness ==
    /\ FoundStale
    /\ Len(CandidatesCname) = 2
    /\ Len(Deletes) = 1
    /\ Len(Creates) = 1
    /\ result = "updated"

\* the record-list calls of this run
Lists == CallsOf({"list_record_sets_by_zone"})
\* the run of update_ips1.py is over and its record-list call had failed
ListFailedA == script = "A" /\ pc = "done" /\ Lists # <<>> /\ Lists[1].outcome # "ok"
\* no delete, one create, and the record sets of the start of the run all in
\* place, the created one after them when the create returned
CreatedNextToOld ==
    /\ Len(Deletes) = 0
    /\ Len(Creates) = 1
    /\ SubSeq(zone, 1, Len(zone0)) = zone0
    /\ Creates[1].outcome = "ok"
         => /\ Len(zone) = Len(zone0) + 1
            /\ DefaultA(zone) = Append(DefaultA(zone0), zone[Len(zone)])
    /\ Creates[1].outcome # "ok" => zone = zone0

\* C19: in the A-record script a failed record-list call is treated as 'no
\* existing records': the run issues no delete call and still issues the
\* create call, which leaves every default-line A record set that existed in
\* place next to the one it creates.
C19_Claim == ListFailedA => CreatedNextToOld

\* what holds of C19 when the record-list call raises ClientRequestException
C19_UnlessUncaught ==
    (ListFailedA /\ Lists[1].outcome = "ClientRequestException") => CreatedNextToOld

\* the listing failed, and the zone ends with the old default-line record set
\* and the new one
C19_CaughtWitness ==
    /\ ListFailedA
    /\ result = "updated"
    /\ DefaultA(zone0) # <<>>
    /\ Len(DefaultA(zone)) = Len(DefaultA(zone0)) + 1

\* the record sets the run may delete: those get_existing_dns_records
\* returned, or the one get_existing_cname_record returned
Deletable == IF script = "A" THEN existing_records ELSE existing_record
\* the numbers of calls of one run
CallBounds ==
    /\ Count("list_public_zones") <= 1
    /\ Count("requests.get") <= 3
    /\ Len(Lists) <= 1
    /\ Len(Creates) <= 1
    /\ Len(Deletes) <= Len(Deletable)
    /\ \A i \in 1..Len(Deletes) : Deletes[i].recordset_id = Deletable[i].id
    /\ \A i, j \in 1..Len(Deletable) : Deletable[i].id = Deletable[j].id => i = j

\* C20: when every call returns or raises, every run of either script reaches
\* its end, having made at most 1 zone-listing call, 3 fetch attempts, 1
\* record-list call, one delete per listed matching record set and 1 create
\* call.
C20_Terminates == []CallBounds /\ ((pc # "done") ~> (pc = "done"))

\* a run that ended after three fetch attempts, two deletes and a create
C20_Witness ==
    /\ script = "A" /\ pc = "done"
    /\ Count("list_public_zones") = 1
    /\ Count("requests.get") = 3
    /\ Len(Lists) = 1
    /\ Len(Deletes) = 2
    /\ Len(Creates) = 1
====
